---------------------------- MODULE Spec2Model ----------------------------
(***************************************************************************)
(* Model of the port-watch core (src-tauri/src/portscan.rs):               *)
(*   - the guarded kill protocol  kill_pid_checked / kill_pid              *)
(*   - the strict port-expression parser  parse_ports_expr_strict          *)
(*   - the port prober  scan_ports  and the command  scan_ports_cmd        *)
(*     (src-tauri/src/main.rs)                                             *)
(*   - the listing parser  parse_windows_netstat_listening_pid_map         *)
(*   - the name comparison  names_match                                    *)
(*                                                                         *)
(* Strings are sequences of one-character strings.  The Korean literals of *)
(* the source are kept as single opaque ASCII elements (a module may only  *)
(* hold ASCII); they hold no digit and no name character.                  *)
(* Option<T> is a sequence of length 0 (None) or 1 (Some).                 *)
(***************************************************************************)
EXTENDS Integers, Sequences, FiniteSets, TLC

VARIABLES
    platform,       \* the build: "posix" or "windows" (cfg(target_os))
    kpc,            \* position inside kill_pid_checked / kill_pid
    entry,          \* which entry point the caller used
    request,        \* the KillRequest
    expected,       \* Option<String>: the normalized expected name
    actual,         \* Option<String>: what process_name_by_pid returned
    warning,        \* Option<String>: the guard's recorded warning
    outcome,        \* Option<Result<KillResultKind, KillError>>
    wrapped,        \* Option<Result<String, String>>: kill_pid's result
    calls,          \* the OS commands run for this request, in order
    ppc,            \* position inside parse_ports_expr_strict
    input,          \* the expression text
    tokens,         \* the non-empty trimmed tokens of the input, in order
    idx,            \* index of the next token of the for loop
    out,            \* BTreeSet<u16>: the ports accumulated so far
    invalid_tokens, \* Vec<String>: the invalid tokens met so far
    presult,        \* Option<Result<Vec<u16>, String>>
    spc,            \* position inside scan_ports_cmd / scan_ports
    sentry,         \* which entry point the caller used
    shost,          \* host
    sexpr,          \* ports_expr of scan_ports_cmd
    stimeout_ms,    \* timeout_ms
    sports,         \* ports: the slice scan_ports works on
    pid_map,        \* HashMap<u16, u32> of this scan
    si,             \* index of the next port of the for loop
    sout,           \* Vec<PortStatus>: the records pushed so far
    probes,         \* what the environment answered for each probed port
    scalls,         \* the functions and OS facilities invoked, in order
    sresult,        \* Option<Result<Vec<PortStatus>, String>> of the entry
    npc,            \* position inside parse_windows_netstat_listening_pid_map
    listing,        \* stdout: the text of the listing
    nline,          \* index of the next line of the for loop
    nmap,           \* HashMap<u16, u32> under construction
    mpc,            \* position of the names_match caller
    m_expected,     \* names_match: expected
    m_actual,       \* names_match: actual
    m_result        \* Option<bool>: what names_match returned

killVars == <<platform, kpc, entry, request, expected, actual, warning,
              outcome, wrapped, calls>>

parseVars == <<ppc, input, tokens, idx, out, invalid_tokens, presult>>

scanVars == <<spc, sentry, shost, sexpr, stimeout_ms, sports, pid_map, si,
              sout, probes, scalls, sresult>>

netstatVars == <<npc, listing, nline, nmap>>

matchVars == <<mpc, m_expected, m_actual, m_result>>

vars == <<killVars, parseVars, scanVars, netstatVars, matchVars>>

\* what each modelled function leaves alone
nonKillVars == <<parseVars, scanVars, netstatVars, matchVars>>

nonParseVars == <<killVars, scanVars, netstatVars, matchVars>>

nonScanVars == <<killVars, parseVars, netstatVars, matchVars>>

nonNetstatVars == <<killVars, parseVars, scanVars, matchVars>>

nonMatchVars == <<killVars, parseVars, scanVars, netstatVars>>

-----------------------------------------------------------------------------
(* Bounds *)

MaxNameLen == 2

MaxTokens == 3

MaxPorts == 2

MaxRows == 3

-----------------------------------------------------------------------------
(* Option and string helpers *)

None == <<>>

Some(v) == <<v>>

IsSome(o) == Len(o) = 1

Unwrap(o) == o[1]

\* char::is_whitespace for the characters of the model (str::trim)
Whitespace == {" ", "\t", "\n", "\r", "\f", "VT"}

AsciiUpper ==
    <<"A", "B", "C", "D", "E", "F", "G", "H", "I", "J", "K", "L", "M",
      "N", "O", "P", "Q", "R", "S", "T", "U", "V", "W", "X", "Y", "Z">>

AsciiLower ==
    <<"a", "b", "c", "d", "e", "f", "g", "h", "i", "j", "k", "l", "m",
      "n", "o", "p", "q", "r", "s", "t", "u", "v", "w", "x", "y", "z">>

\* u8::to_ascii_lowercase on one character: only A-Z change
ToAsciiLower(c) ==
    IF \E i \in 1..26 : AsciiUpper[i] = c
        THEN AsciiLower[CHOOSE i \in 1..26 : AsciiUpper[i] = c]
        ELSE c

RECURSIVE TrimStart(_)
TrimStart(s) ==
    IF s # <<>> /\ Head(s) \in Whitespace THEN TrimStart(Tail(s)) ELSE s

RECURSIVE TrimEnd(_)
TrimEnd(s) ==
    IF s # <<>> /\ s[Len(s)] \in Whitespace
        THEN TrimEnd(SubSeq(s, 1, Len(s) - 1))
        ELSE s

\* str::trim
Trim(s) == TrimEnd(TrimStart(s))

\* str::eq_ignore_ascii_case
EqIgnoreAsciiCase(a, b) ==
    /\ Len(a) = Len(b)
    /\ \A i \in 1..Len(a) : ToAsciiLower(a[i]) = ToAsciiLower(b[i])

\* str::contains
Contains(text, sub) ==
    \E i \in 1..(Len(text) - Len(sub) + 1) :
        SubSeq(text, i, i + Len(sub) - 1) = sub

DigitChar == <<"0", "1", "2", "3", "4", "5", "6", "7", "8", "9">>

\* u32::to_string / Display for integers
RECURSIVE ToDecimal(_)
ToDecimal(n) ==
    IF n < 10 THEN <<DigitChar[n + 1]>>
    ELSE ToDecimal(n \div 10) \o <<DigitChar[(n % 10) + 1]>>

-----------------------------------------------------------------------------
(* Inputs *)

NameChars == {" ", "n", "N", "j"}

RECURSIVE StringsUpTo(_, _)
StringsUpTo(chars, n) ==
    IF n = 0 THEN {<<>>}
    ELSE LET shorter == StringsUpTo(chars, n - 1)
         IN  shorter \cup {Append(s, c) : s \in shorter, c \in chars}

Names == StringsUpTo(NameChars, MaxNameLen)

Pids == {0, 7, 10}

KillMode == {"Soft", "Force"}

KillRequest ==
    [pid : Pids,
     mode : KillMode,
     expected_process_name : {None} \cup {Some(n) : n \in Names},
     allow_mismatch : BOOLEAN]

Platforms == {"posix", "windows"}

-----------------------------------------------------------------------------
(* KillResultKind and KillError *)

Killed == [kind |-> "Killed"]

KilledWithWarning(reason) == [kind |-> "KilledWithWarning", reason |-> reason]

InvalidPid == [kind |-> "InvalidPid"]

LookupFailed(pid) == [kind |-> "LookupFailed", pid |-> pid]

GuardMismatch(exp, act) ==
    [kind |-> "GuardMismatch", expected |-> exp, actual |-> act]

CommandFailed(detail) == [kind |-> "CommandFailed", detail |-> detail]

Ok(v) == [ok |-> TRUE, val |-> v]

Err(e) == [ok |-> FALSE, val |-> e]

\* KillError::message
KillErrorMessage(e) ==
    CASE e.kind = "InvalidPid" -> <<"INVALID_PID_TEXT">>
      [] e.kind = "LookupFailed" ->
            <<"PID ">> \o ToDecimal(e.pid) \o <<" LOOKUP_BLOCKED_TEXT">>
      [] e.kind = "GuardMismatch" ->
            IF IsSome(e.actual)
                THEN <<"MISMATCH_BLOCKED_TEXT expected='">> \o e.expected
                        \o <<"', actual='">> \o Unwrap(e.actual) \o <<"'">>
                ELSE <<"MISMATCH_BLOCKED_TEXT expected='">> \o e.expected
                        \o <<"'">>
      [] e.kind = "CommandFailed" -> e.detail

-----------------------------------------------------------------------------
(* Pure helpers of the kill path *)

normalize_non_empty_name(value) ==
    LET trimmed == Trim(value)
    IN  IF trimmed = <<>> THEN None ELSE Some(trimmed)

\* mutant: the names are compared as given, not trimmed
names_match_NoTrim(exp, act) == EqIgnoreAsciiCase(exp, act)

names_match(exp, act) == EqIgnoreAsciiCase(Trim(exp), Trim(act))

success_label(mode) == IF mode = "Force" THEN <<"force-killed">> ELSE <<"killed">>

\* mutant: the warning names only the expected name
MismatchWarning_NoActual(exp, actual_name) ==
    <<"MISMATCH_FORCED_TEXT expected='">> \o exp \o <<"'">>

MismatchWarning(exp, actual_name) ==
    <<"MISMATCH_FORCED_TEXT expected='">> \o exp
        \o <<"', actual='">> \o actual_name \o <<"'">>

\* mutant: the warning does not carry the pid
LookupWarning_NoPid(pid) == <<"PID ", " LOOKUP_FAILED_FORCED_TEXT">>

LookupWarning(pid) ==
    <<"PID ">> \o ToDecimal(pid) \o <<" LOOKUP_FAILED_FORCED_TEXT">>

\* mutant: a resolved owner is let through without comparing the names
evaluate_kill_guard_NoCompare(pid, exp, act, allow_mismatch) ==
    IF IsSome(act) THEN Ok(None)
    ELSE
        IF allow_mismatch
            THEN Ok(Some(LookupWarning(pid)))
            ELSE Err(LookupFailed(pid))

evaluate_kill_guard(pid, exp, act, allow_mismatch) ==
    IF IsSome(act) /\ names_match(exp, Unwrap(act)) THEN Ok(None)
    ELSE IF IsSome(act) THEN
        IF allow_mismatch
            THEN Ok(Some(MismatchWarning(exp, Unwrap(act))))
            ELSE Err(GuardMismatch(exp, Some(Unwrap(act))))
    ELSE
        IF allow_mismatch
            THEN Ok(Some(LookupWarning(pid)))
            ELSE Err(LookupFailed(pid))

\* What process_name_by_pid can return: None on any failure or empty output;
\* otherwise a non-empty name, fully trimmed on the posix build (the windows
\* build trims before stripping the quotes of the CSV field).
ProcessNameOutcomes(plat) ==
    {None} \cup
    {Some(n) : n \in {m \in Names : m # <<>> /\ (plat = "posix" => Trim(m) = m)}}

\* The command line execute_kill runs.
KillCommand(plat, pid, mode) ==
    IF plat = "windows"
        THEN <<"taskkill", "/PID">> \o <<ToDecimal(pid)>>
                \o (IF mode = "Force" THEN <<"/F">> ELSE <<>>)
        ELSE <<"kill", IF mode = "Force" THEN "-KILL" ELSE "-TERM",
               ToDecimal(pid)>>

\* What execute_kill can return: Ok(()), or one of its two diagnostics.
ExecuteKillOutcomes(plat) ==
    IF plat = "windows"
        THEN {Ok(<<>>), Err(<<"failed to execute taskkill: ", "e">>),
              Err(<<"taskkill failed: ", "stderr">>)}
        ELSE {Ok(<<>>), Err(<<"failed to execute kill: ", "e">>),
              Err(<<"kill failed: ", "stderr">>)}

LookupCall(pid) == [op |-> "process_name_by_pid", pid |-> pid]

KillCall(plat, pid, mode, r) ==
    [op |-> "execute_kill", pid |-> pid, cmd |-> KillCommand(plat, pid, mode),
     result |-> r]

-----------------------------------------------------------------------------
(* The kill protocol *)

KillIdle ==
    /\ kpc = "idle"
    /\ entry = "none"
    /\ request = [pid |-> 0, mode |-> "Soft",
                  expected_process_name |-> None, allow_mismatch |-> FALSE]
    /\ expected = None
    /\ actual = None
    /\ warning = None
    /\ outcome = None
    /\ wrapped = None
    /\ calls = <<>>

ParseIdle ==
    /\ ppc = "idle"
    /\ input = <<>>
    /\ tokens = <<>>
    /\ idx = 1
    /\ out = {}
    /\ invalid_tokens = <<>>
    /\ presult = None

EmptyMap == [p \in {} |-> 0]

ScanIdle ==
    /\ spc = "idle"
    /\ sentry = "none"
    /\ shost = <<>>
    /\ sexpr = <<>>
    /\ stimeout_ms = 0
    /\ sports = <<>>
    /\ pid_map = EmptyMap
    /\ si = 1
    /\ sout = <<>>
    /\ probes = <<>>
    /\ scalls = <<>>
    /\ sresult = None

NetstatIdle ==
    /\ npc = "idle"
    /\ listing = <<>>
    /\ nline = 1
    /\ nmap = EmptyMap

MatchIdle ==
    /\ mpc = "idle"
    /\ m_expected = <<>>
    /\ m_actual = <<>>
    /\ m_result = None

KillInit ==
    /\ platform \in Platforms
    /\ KillIdle
    /\ ParseIdle
    /\ ScanIdle
    /\ NetstatIdle
    /\ MatchIdle

\* a caller invokes kill_pid_checked(request)
CallKillPidChecked ==
    /\ kpc = "idle"
    /\ \E req \in KillRequest : request' = req
    /\ entry' = "kill_pid_checked"
    /\ kpc' = "check_pid"
    /\ UNCHANGED <<platform, expected, actual, warning, outcome, wrapped, calls>>
    /\ UNCHANGED nonKillVars

\* the KillRequest kill_pid builds
KillPidRequest(pid, mode) ==
    [pid |-> pid, mode |-> mode,
     expected_process_name |-> None, allow_mismatch |-> FALSE]

\* a caller invokes kill_pid(pid, mode)
CallKillPid ==
    /\ kpc = "idle"
    /\ \E pid \in Pids, mode \in KillMode :
          request' = KillPidRequest(pid, mode)
    /\ entry' = "kill_pid"
    /\ kpc' = "check_pid"
    /\ UNCHANGED <<platform, expected, actual, warning, outcome, wrapped, calls>>
    /\ UNCHANGED nonKillVars

\* mutant: the pid check is missing
PidIsInvalid_Never(pid) == FALSE

\* if pid == 0 { return Err(KillError::InvalidPid) }
PidIsInvalid(pid) == pid = 0

CheckPid ==
    /\ kpc = "check_pid"
    /\ IF PidIsInvalid(request.pid)
          THEN /\ outcome' = Some(Err(InvalidPid))
               /\ kpc' = "returned"
          ELSE /\ outcome' = outcome
               /\ kpc' = "normalize"
    /\ UNCHANGED <<platform, entry, request, expected, actual, warning,
                   wrapped, calls>>
    /\ UNCHANGED nonKillVars

\* mutant: a blank expected name is kept as a name to guard on
NormalizeExpected_KeepBlank(name) ==
    IF IsSome(name) /\ Unwrap(name) # <<>>
        THEN (IF Trim(Unwrap(name)) = <<>> THEN name ELSE Some(Trim(Unwrap(name))))
        ELSE None

\* expected_process_name.and_then(|v| normalize_non_empty_name(&v))
NormalizeExpected(name) ==
    IF IsSome(name) THEN normalize_non_empty_name(Unwrap(name)) ELSE None

Normalize ==
    /\ kpc = "normalize"
    /\ expected' = NormalizeExpected(request.expected_process_name)
    /\ kpc' = IF IsSome(expected') THEN "lookup" ELSE "execute"
    /\ UNCHANGED <<platform, entry, request, actual, warning, outcome,
                   wrapped, calls>>
    /\ UNCHANGED nonKillVars

\* let actual = process_name_by_pid(pid);
Lookup ==
    /\ kpc = "lookup"
    /\ \E a \in ProcessNameOutcomes(platform) : actual' = a
    /\ calls' = Append(calls, LookupCall(request.pid))
    /\ kpc' = "guard"
    /\ UNCHANGED <<platform, entry, request, expected, warning, outcome,
                   wrapped>>
    /\ UNCHANGED nonKillVars

\* evaluate_kill_guard(pid, &expected_name, actual, allow_mismatch)?
Guard ==
    /\ kpc = "guard"
    /\ LET decision == evaluate_kill_guard(request.pid, Unwrap(expected),
                                           actual, request.allow_mismatch)
       IN  IF decision.ok
              THEN /\ warning' = decision.val
                   /\ outcome' = outcome
                   /\ kpc' = "execute"
              ELSE /\ warning' = warning
                   /\ outcome' = Some(Err(decision.val))
                   /\ kpc' = "returned"
    /\ UNCHANGED <<platform, entry, request, expected, actual, wrapped, calls>>
    /\ UNCHANGED nonKillVars

\* mutant: the failure of the termination command is dropped
ExecuteResult_IgnoreFailure(r) == IF r.ok THEN None ELSE Some(Ok(Killed))

\* execute_kill(pid, mode).map_err(KillError::CommandFailed)?
ExecuteResult(r) == IF r.ok THEN None ELSE Some(Err(CommandFailed(r.val)))

Execute ==
    /\ kpc = "execute"
    /\ \E r \in ExecuteKillOutcomes(platform) :
          /\ calls' = Append(calls, KillCall(platform, request.pid,
                                             request.mode, r))
          /\ outcome' = ExecuteResult(r)
          /\ kpc' = IF r.ok THEN "result" ELSE "returned"
    /\ UNCHANGED <<platform, entry, request, expected, actual, warning,
                   wrapped>>
    /\ UNCHANGED nonKillVars

\* mutant: the recorded warning is not reported
FinalResult_DropWarning(w) == Ok(Killed)

\* if let Some(warning) = warning { Ok(KilledWithWarning(warning)) }
\* else { Ok(Killed) }
FinalResult(w) ==
    IF IsSome(w) THEN Ok(KilledWithWarning(Unwrap(w))) ELSE Ok(Killed)

Result ==
    /\ kpc = "result"
    /\ outcome' = Some(FinalResult(warning))
    /\ kpc' = "returned"
    /\ UNCHANGED <<platform, entry, request, expected, actual, warning,
                   wrapped, calls>>
    /\ UNCHANGED nonKillVars

\* kill_pid maps the checked result to Result<String, String>
KillPidWrap(res, pid, mode) ==
    IF res.ok
        THEN Ok(success_label(mode) \o <<" pid ">> \o ToDecimal(pid))
        ELSE Err(KillErrorMessage(res.val))

KillPidReturn ==
    /\ kpc = "returned"
    /\ entry = "kill_pid"
    /\ wrapped' = Some(KillPidWrap(Unwrap(outcome), request.pid, request.mode))
    /\ kpc' = "done"
    /\ UNCHANGED <<platform, entry, request, expected, actual, warning,
                   outcome, calls>>
    /\ UNCHANGED nonKillVars

KillPidCheckedReturn ==
    /\ kpc = "returned"
    /\ entry = "kill_pid_checked"
    /\ kpc' = "done"
    /\ UNCHANGED <<platform, entry, request, expected, actual, warning,
                   outcome, wrapped, calls>>
    /\ UNCHANGED nonKillVars

KillNext ==
    \/ CallKillPidChecked
    \/ CallKillPid
    \/ CheckPid
    \/ Normalize
    \/ Lookup
    \/ Guard
    \/ Execute
    \/ Result
    \/ KillPidReturn
    \/ KillPidCheckedReturn

SpecKill == KillInit /\ [][KillNext]_vars

-----------------------------------------------------------------------------
(* Properties of the kill protocol *)

Returned == kpc \in {"returned", "done"}

KillCalls == {i \in 1..Len(calls) : calls[i].op = "execute_kill"}

LookupCalls == {i \in 1..Len(calls) : calls[i].op = "process_name_by_pid"}

KillInvoked == KillCalls # {}

LookupInvoked == LookupCalls # {}

KillSucceeded == \E i \in KillCalls : calls[i].result.ok

KillFailed == \E i \in KillCalls : ~calls[i].result.ok

IsBlank(s) == \A i \in 1..Len(s) : s[i] \in Whitespace

\* the request names no expected process: the field is absent or blank
Unguarded ==
    \/ request.expected_process_name = None
    \/ IsBlank(Unwrap(request.expected_process_name))

\* the guard has produced its decision for this request
GuardDecided == LookupInvoked /\ kpc # "guard"

OwnerMatches == IsSome(actual) /\ names_match(Unwrap(expected), Unwrap(actual))

OwnerDiffers == IsSome(actual) /\ ~names_match(Unwrap(expected), Unwrap(actual))

ErrKind(k) == IsSome(outcome) /\ ~Unwrap(outcome).ok /\ Unwrap(outcome).val.kind = k

OkKind(k) == IsSome(outcome) /\ Unwrap(outcome).ok /\ Unwrap(outcome).val.kind = k

\* C1: the termination command runs only for pid # 0 and when the request is
\* unguarded, the looked-up owner matches, or allow_mismatch is set; a run
\* ending in InvalidPid, LookupFailed or GuardMismatch has not run it; in a
\* guarded run the name lookup precedes the termination command.
C1_KillOnlyWhenGuardAllows ==
    /\ KillInvoked =>
          /\ request.pid # 0
          /\ \/ Unguarded
             \/ (LookupInvoked /\ OwnerMatches)
             \/ request.allow_mismatch
    /\ (ErrKind("InvalidPid") \/ ErrKind("LookupFailed") \/ ErrKind("GuardMismatch"))
          => ~KillInvoked
    /\ (KillInvoked /\ ~Unguarded) =>
          \A k \in KillCalls : \E l \in LookupCalls : l < k

\* a guarded request whose owner matched went on to run the termination command
C1_Witness ==
    /\ KillInvoked /\ ~Unguarded /\ OwnerMatches
    /\ ~request.allow_mismatch
    /\ Unwrap(expected) # Unwrap(actual)

\* C2: pid = 0 returns InvalidPid for every mode, expected name and
\* allow_mismatch, with neither the name lookup nor the termination command run.
C2_PidZeroIsInvalid ==
    request.pid = 0 =>
        /\ calls = <<>>
        /\ Returned => outcome = Some(Err(InvalidPid))

C2_Witness ==
    /\ Returned /\ entry = "kill_pid_checked" /\ request.pid = 0
    /\ request.mode = "Force" /\ ~Unguarded /\ request.allow_mismatch
    /\ outcome = Some(Err(InvalidPid))

\* C3: owner resolved and different from the expected name: without
\* allow_mismatch the result is GuardMismatch{expected, actual: Some(owner)};
\* with it the guard goes on to Execute with a warning whose text contains
\* the expected name and the owner name.
C3_MismatchDecision ==
    (GuardDecided /\ OwnerDiffers) =>
        IF request.allow_mismatch
            THEN /\ IsSome(warning)
                 /\ Contains(Unwrap(warning), Unwrap(expected))
                 /\ Contains(Unwrap(warning), Unwrap(actual))
                 /\ (kpc = "execute" \/ KillInvoked)
            ELSE /\ outcome = Some(Err(GuardMismatch(Unwrap(expected), actual)))
                 /\ Returned
                 /\ ~KillInvoked

C3_Witness ==
    /\ GuardDecided /\ OwnerDiffers /\ request.allow_mismatch
    /\ OkKind("KilledWithWarning")

\* C4: owner unresolved for a request with a non-blank expected name: without
\* allow_mismatch the result is LookupFailed{pid} with the request's pid; with
\* it the guard goes on to Execute with a warning whose text contains the pid.
C4_LookupFailureDecision ==
    (GuardDecided /\ ~Unguarded /\ actual = None) =>
        IF request.allow_mismatch
            THEN /\ IsSome(warning)
                 /\ Contains(Unwrap(warning), ToDecimal(request.pid))
                 /\ (kpc = "execute" \/ KillInvoked)
            ELSE /\ outcome = Some(Err(LookupFailed(request.pid)))
                 /\ Returned
                 /\ ~KillInvoked

C4_Witness ==
    /\ GuardDecided /\ ~Unguarded /\ actual = None /\ request.allow_mismatch
    /\ request.pid = 10
    /\ OkKind("KilledWithWarning")

\* the guard's decision recorded a warning: an override of an owner mismatch
\* or of a failed lookup
WarningCase ==
    /\ GuardDecided
    /\ request.allow_mismatch
    /\ (OwnerDiffers \/ actual = None)

\* C5: the result is KilledWithWarning(reason) exactly when the termination
\* command succeeded and the guard recorded a warning, and Killed exactly when
\* it succeeded and no warning was recorded; a matching owner gives Killed on
\* success whatever allow_mismatch is.
C5_ResultKind ==
    Returned =>
        /\ OkKind("KilledWithWarning") <=> (KillSucceeded /\ WarningCase)
        /\ OkKind("KilledWithWarning") =>
              Unwrap(outcome).val.reason = Unwrap(warning)
        /\ OkKind("Killed") <=> (KillSucceeded /\ ~WarningCase)
        /\ (KillSucceeded /\ LookupInvoked /\ OwnerMatches) => OkKind("Killed")

C5_Witness ==
    /\ Returned /\ KillSucceeded /\ LookupInvoked /\ OwnerMatches
    /\ request.allow_mismatch
    /\ Unwrap(request.expected_process_name) # Unwrap(actual)
    /\ OkKind("Killed")

\* C6: with expected_process_name absent or blank, and pid # 0, the name
\* lookup is never run, the request goes straight to Execute whatever
\* allow_mismatch is, and the outcome is Killed or CommandFailed; kill_pid
\* takes exactly this path.
C6_UnguardedPath ==
    /\ (Unguarded /\ request.pid # 0 /\ entry # "none") =>
          /\ ~LookupInvoked
          /\ kpc \notin {"lookup", "guard"}
          /\ warning = None
          /\ Returned => (OkKind("Killed") \/ ErrKind("CommandFailed"))
    /\ entry = "kill_pid" => Unguarded

C6_Witness ==
    /\ Returned /\ request.pid # 0 /\ request.allow_mismatch
    /\ IsSome(request.expected_process_name) /\ Unguarded
    /\ Unwrap(request.expected_process_name) # <<>>
    /\ OkKind("Killed")

\* C7: a termination command that fails gives CommandFailed(detail) as the
\* final result, also when a warning had been recorded; the termination
\* command and the name lookup each run at most once per request.
C7_CommandFailedNoRetry ==
    /\ Cardinality(KillCalls) <= 1
    /\ Cardinality(LookupCalls) <= 1
    /\ (Returned /\ KillFailed) =>
          \E i \in KillCalls :
              outcome = Some(Err(CommandFailed(calls[i].result.val)))

C7_Witness ==
    /\ Returned /\ KillFailed /\ IsSome(warning)
    /\ ErrKind("CommandFailed")

-----------------------------------------------------------------------------
(* The strict port-expression parser *)

MAX_PORT_COUNT == 5000

U16_MAX == 65535

\* char::is_ascii_whitespace
AsciiWhitespace == {" ", "\t", "\n", "\f", "\r"}

\* the separator test of the split closure
IsSeparator(c) == c = "," \/ c \in AsciiWhitespace

\* str::split(pred): the pieces between separators, empty pieces included
RECURSIVE SplitFrom(_, _, _)
SplitFrom(text, i, piece) ==
    IF i > Len(text) THEN <<piece>>
    ELSE IF IsSeparator(text[i])
        THEN <<piece>> \o SplitFrom(text, i + 1, <<>>)
        ELSE SplitFrom(text, i + 1, Append(piece, text[i]))

Split(text) == SplitFrom(text, 1, <<>>)

\* .map(str::trim)
RECURSIVE MapTrim(_)
MapTrim(pieces) ==
    IF pieces = <<>> THEN <<>>
    ELSE <<Trim(Head(pieces))>> \o MapTrim(Tail(pieces))

NonEmpty(v) == v # <<>>

\* input.split(..).map(str::trim).filter(|v| !v.is_empty())
Tokenize(text) == SelectSeq(MapTrim(Split(text)), NonEmpty)

DigitValue(c) ==
    CASE c = "0" -> 0 [] c = "1" -> 1 [] c = "2" -> 2 [] c = "3" -> 3
      [] c = "4" -> 4 [] c = "5" -> 5 [] c = "6" -> 6 [] c = "7" -> 7
      [] c = "8" -> 8 [] c = "9" -> 9 [] OTHER -> -1

\* the digit loop of u16::from_str: checked multiply and add
RECURSIVE ParseDigits(_, _)
ParseDigits(digits, acc) ==
    IF digits = <<>> THEN Some(acc)
    ELSE IF DigitValue(Head(digits)) < 0 THEN None
    ELSE LET next == acc * 10 + DigitValue(Head(digits))
         IN  IF next > U16_MAX THEN None
             ELSE ParseDigits(Tail(digits), next)

\* str::parse::<u16>().ok(): an optional '+', then at least one digit
ParseU16(text) ==
    IF text = <<>> THEN None
    ELSE IF Len(text) = 1 /\ Head(text) \in {"+", "-"} THEN None
    ELSE IF Head(text) = "+" THEN ParseDigits(Tail(text), 0)
    ELSE ParseDigits(text, 0)

\* index of the first '-' of the token, 0 when it has none
RECURSIVE FindDash(_, _)
FindDash(token, i) ==
    IF i > Len(token) THEN 0
    ELSE IF token[i] = "-" THEN i
    ELSE FindDash(token, i + 1)

\* token.split_once('-')
SplitOnce(token) ==
    LET d == FindDash(token, 1)
    IN  IF d = 0 THEN None
        ELSE Some(<<SubSeq(token, 1, d - 1), SubSeq(token, d + 1, Len(token))>>)

\* format!("too many ports: {} (max {})", out.len(), MAX_PORT_COUNT)
TooManyPorts(len) ==
    <<"too many ports: ">> \o ToDecimal(len) \o <<" (max ">>
        \o ToDecimal(MAX_PORT_COUNT) \o <<")">>

\* invalid_tokens.join(", ")
RECURSIVE Join(_)
Join(toks) ==
    IF toks = <<>> THEN <<>>
    ELSE IF Len(toks) = 1 THEN Head(toks)
    ELSE Head(toks) \o <<",", " ">> \o Join(Tail(toks))

\* format!("invalid ports: {}", invalid_tokens.join(", "))
InvalidPorts(toks) == <<"invalid ports: ">> \o Join(toks)

\* mutant: the ceiling itself is rejected
OverCeiling_Inclusive(len) == len >= MAX_PORT_COUNT

\* out.len() > MAX_PORT_COUNT
OverCeiling(len) == len > MAX_PORT_COUNT

\* mutant: the ports inserted so far are replaced, not extended
InsertPorts_Replace(set, start, end) ==
    LET merged == start..end
    IN  IF OverCeiling(Cardinality(merged))
            THEN Err(TooManyPorts(MAX_PORT_COUNT + 1))
            ELSE Ok(merged)

\* The insert loop over start..=end (a single port is the loop over p..=p).
\* Each insert adds at most one port and the length is tested after each one,
\* so the loop returns at the first insert that brings the length to
\* MAX_PORT_COUNT + 1, which happens exactly when the merged set is over the
\* ceiling; the length it reports is the length at that insert.
InsertPorts(set, start, end) ==
    LET merged == set \cup (start..end)
    IN  IF OverCeiling(Cardinality(merged))
            THEN Err(TooManyPorts(MAX_PORT_COUNT + 1))
            ELSE Ok(merged)

\* (Ok(start), Ok(end)) if start > 0 && start <= end
ValidRange(start, end) ==
    /\ IsSome(start) /\ IsSome(end)
    /\ Unwrap(start) > 0
    /\ Unwrap(start) <= Unwrap(end)

\* Ok(port) if port > 0
ValidSingle(port) == IsSome(port) /\ Unwrap(port) > 0

\* the ports a token asks to insert, as <<start, end>>; None for an invalid token
TokenRange(token) ==
    LET pair == SplitOnce(token)
    IN  IF IsSome(pair)
            THEN LET start == ParseU16(Trim(Unwrap(pair)[1]))
                     end   == ParseU16(Trim(Unwrap(pair)[2]))
                 IN  IF ValidRange(start, end)
                         THEN Some(<<Unwrap(start), Unwrap(end)>>)
                         ELSE None
            ELSE LET port == ParseU16(token)
                 IN  IF ValidSingle(port)
                         THEN Some(<<Unwrap(port), Unwrap(port)>>)
                         ELSE None

\* invalid_tokens.push(token.to_string())
PushInvalid(toks, token) == Append(toks, token)

\* mutant: the first invalid token ends the scan
ScanStep_FailFast(st, token) ==
    LET range == TokenRange(token)
    IN  IF IsSome(range)
            THEN LET ins == InsertPorts(st.out, Unwrap(range)[1], Unwrap(range)[2])
                 IN  IF ins.ok
                         THEN [st EXCEPT !.out = ins.val]
                         ELSE [st EXCEPT !.ret = Some(ins)]
            ELSE [st EXCEPT !.ret = Some(Err(InvalidPorts(<<token>>)))]

\* One iteration of the for loop on the state st = [out, invalid, ret]:
\* ret is the early return value, None while the loop goes on.
ScanStep(st, token) ==
    LET range == TokenRange(token)
    IN  IF IsSome(range)
            THEN LET ins == InsertPorts(st.out, Unwrap(range)[1], Unwrap(range)[2])
                 IN  IF ins.ok
                         THEN [st EXCEPT !.out = ins.val]
                         ELSE [st EXCEPT !.ret = Some(ins)]
            ELSE [st EXCEPT !.invalid = PushInvalid(st.invalid, token)]

\* the largest element of a non-empty set of u16 values, found by bisection
RECURSIVE MaxBetween(_, _, _)
MaxBetween(set, lo, hi) ==
    IF lo = hi THEN lo
    ELSE LET mid == (lo + hi + 1) \div 2
         IN  IF set \cap (mid..hi) # {}
                 THEN MaxBetween(set, mid, hi)
                 ELSE MaxBetween(set, lo, mid - 1)

\* out.into_iter().collect(): the elements of the BTreeSet in ascending order
IntoSortedVec(set) ==
    IF set = {} THEN <<>>
    ELSE LET top == MaxBetween(set, 0, U16_MAX)
             InSet(p) == p \in set
         IN  SelectSeq([p \in 1..top |-> p], InSet)

\* the code after the for loop
FinishResult(st) ==
    IF st.invalid # <<>> THEN Err(InvalidPorts(st.invalid))
    ELSE Ok(IntoSortedVec(st.out))

\* parse_ports_expr_strict as a function of its input
RECURSIVE ScanFrom(_, _, _)
ScanFrom(st, toks, i) ==
    IF IsSome(st.ret) THEN Unwrap(st.ret)
    ELSE IF i > Len(toks) THEN FinishResult(st)
    ELSE ScanFrom(ScanStep(st, toks[i]), toks, i + 1)

ScanStart == [out |-> {}, invalid |-> <<>>, ret |-> None]

parse_ports_expr_strict(text) == ScanFrom(ScanStart, Tokenize(text), 1)

(* Inputs of the parser *)

TokenPool ==
    { <<"8", "0">>,
      <<"3", "-", "5">>,
      <<"1", "-", "5", "0", "0", "0">>,
      <<"2", "-", "5", "0", "0", "1">>,
      <<"1", "-", "5", "0", "0", "1">>,
      <<"0">>,
      <<"x">>,
      <<"5", "-", "3">>,
      <<"3", "-", "2", "x">>,
      <<"0", "-", "5">> }

RECURSIVE TokenSeqs(_)
TokenSeqs(n) ==
    IF n = 0 THEN {<<>>}
    ELSE LET shorter == TokenSeqs(n - 1)
         IN  shorter \cup {Append(ts, t) : ts \in shorter, t \in TokenPool}

\* the separator written after the i-th token: ", " then " " then ","
SeparatorAfter(i) ==
    CASE i % 3 = 1 -> <<",", " ">>
      [] i % 3 = 2 -> <<" ">>
      [] OTHER     -> <<",">>

\* the expression text that lists the tokens toks
RECURSIVE ExprFrom(_, _)
ExprFrom(toks, i) ==
    IF i > Len(toks) THEN <<>>
    ELSE IF i = Len(toks) THEN toks[i]
    ELSE toks[i] \o SeparatorAfter(i) \o ExprFrom(toks, i + 1)

ExprText(toks) == ExprFrom(toks, 1)

Expressions == {ExprText(ts) : ts \in TokenSeqs(MaxTokens)}

(* The parser as a state machine: one step per loop iteration *)

ParseInit ==
    /\ platform = "posix"
    /\ KillIdle
    /\ ParseIdle
    /\ ScanIdle
    /\ NetstatIdle
    /\ MatchIdle

\* a caller invokes parse_ports_expr_strict(input)
CallParse ==
    /\ ppc = "idle"
    /\ \E text \in Expressions :
          /\ input' = text
          /\ tokens' = Tokenize(text)
    /\ idx' = 1
    /\ out' = {}
    /\ invalid_tokens' = <<>>
    /\ ppc' = "scan"
    /\ UNCHANGED presult
    /\ UNCHANGED nonParseVars

\* one iteration of the for loop
ScanToken ==
    /\ ppc = "scan"
    /\ idx <= Len(tokens)
    /\ LET st == ScanStep([out |-> out, invalid |-> invalid_tokens, ret |-> None],
                          tokens[idx])
       IN  /\ out' = st.out
           /\ invalid_tokens' = st.invalid
           /\ presult' = st.ret
           /\ ppc' = IF IsSome(st.ret) THEN "done" ELSE "scan"
    /\ idx' = idx + 1
    /\ UNCHANGED <<input, tokens>>
    /\ UNCHANGED nonParseVars

\* the loop is over: report the invalid tokens or collect the ports
Finish ==
    /\ ppc = "scan"
    /\ idx > Len(tokens)
    /\ presult' = Some(FinishResult([out |-> out, invalid |-> invalid_tokens,
                                     ret |-> None]))
    /\ ppc' = "done"
    /\ UNCHANGED <<input, tokens, idx, out, invalid_tokens>>
    /\ UNCHANGED nonParseVars

ParseNext ==
    \/ CallParse
    \/ ScanToken
    \/ Finish

SpecParse == ParseInit /\ [][ParseNext]_vars

-----------------------------------------------------------------------------
(* Properties of the parser *)

ParseDone == ppc = "done"

ParseOk == ParseDone /\ Unwrap(presult).ok

ParseErr == ParseDone /\ ~Unwrap(presult).ok

\* the ports a token names: one port, an inclusive range, or nothing
PortsNamed(token) ==
    LET range == TokenRange(token)
    IN  IF IsSome(range) THEN Unwrap(range)[1]..Unwrap(range)[2] ELSE {}

\* the distinct ports named by the first k tokens
PrefixPorts(k) == UNION {PortsNamed(tokens[i]) : i \in 1..k}

\* a token that is neither a port > 0 nor a range start-end with 0 < start <= end
InvalidToken(token) ==
    LET pair == SplitOnce(token)
    IN  IF IsSome(pair)
            THEN LET start == ParseU16(Trim(Unwrap(pair)[1]))
                     end   == ParseU16(Trim(Unwrap(pair)[2]))
                 IN  \/ start = None
                     \/ end = None
                     \/ Unwrap(start) = 0
                     \/ Unwrap(start) > Unwrap(end)
            ELSE LET port == ParseU16(token)
                 IN  port = None \/ Unwrap(port) = 0

InvalidTokensOf(toks) == SelectSeq(toks, InvalidToken)

Permuted(toks, f) == [i \in 1..Len(toks) |-> toks[f[i]]]

IsTooMany(res) == ~res.ok /\ res.val[1] = "too many ports: "

\* C8: a successful result is strictly ascending, within 1..65535, and holds
\* exactly the ports named by the tokens; permuting the tokens or repeating
\* one of them gives the same result.
C8_SortedUnion ==
    ParseOk =>
        LET v == Unwrap(presult).val
            n == Len(tokens)
        IN  /\ \A i \in 1..(Len(v) - 1) : v[i] < v[i + 1]
            /\ \A i \in 1..Len(v) : v[i] \in 1..U16_MAX
            /\ {v[i] : i \in 1..Len(v)} = PrefixPorts(n)
            /\ \A f \in Permutations(1..n) :
                  parse_ports_expr_strict(ExprText(Permuted(tokens, f)))
                      = Unwrap(presult)
            /\ \A k \in 1..n :
                  parse_ports_expr_strict(ExprText(Append(tokens, tokens[k])))
                      = Unwrap(presult)

\* "80, 3-5, 80" gives [3, 4, 5, 80]
C8_Witness ==
    /\ ParseOk
    /\ tokens = << <<"8", "0">>, <<"3", "-", "5">>, <<"8", "0">> >>
    /\ Unwrap(presult).val = <<3, 4, 5, 80>>

\* C9 as stated: whenever the expression holds an invalid token, every token
\* is scanned and the error lists all the invalid tokens in input order.
C9_AlwaysAggregates ==
    (ParseDone /\ InvalidTokensOf(tokens) # <<>>) =>
        /\ idx = Len(tokens) + 1
        /\ Unwrap(presult) = Err(InvalidPorts(InvalidTokensOf(tokens)))

\* C9, amended: when the expression holds an invalid token and its valid
\* tokens name at most MAX_PORT_COUNT distinct ports, every token is scanned
\* and the error lists all the invalid tokens, in input order, comma-joined;
\* when they name more, the result is the too-many-ports error instead.
C9_AggregatesUnderCeiling ==
    (ParseDone /\ InvalidTokensOf(tokens) # <<>>) =>
        IF Cardinality(PrefixPorts(Len(tokens))) <= MAX_PORT_COUNT
            THEN /\ idx = Len(tokens) + 1
                 /\ Unwrap(presult) = Err(InvalidPorts(InvalidTokensOf(tokens)))
            ELSE IsTooMany(Unwrap(presult))

\* two invalid tokens around a valid one are both reported, in order
C9_Witness ==
    /\ ParseErr
    /\ tokens = << <<"x">>, <<"8", "0">>, <<"5", "-", "3">> >>
    /\ Unwrap(presult).val
          = <<"invalid ports: ", "x", ",", " ", "5", "-", "3">>

\* the tokens whose prefix names more than MAX_PORT_COUNT distinct ports
CrossingTokens ==
    {k \in 1..Len(tokens) : Cardinality(PrefixPorts(k)) > MAX_PORT_COUNT}

\* C10: the scan never goes on with more than MAX_PORT_COUNT ports; it stops
\* with the too-many-ports error at the first token that brings the distinct
\* ports over MAX_PORT_COUNT; it does not reject exactly MAX_PORT_COUNT ports;
\* a successful result holds at most MAX_PORT_COUNT ports.
C10_CeilingIncremental ==
    /\ Cardinality(out) <= MAX_PORT_COUNT
    /\ ParseDone =>
          IF CrossingTokens # {}
              THEN /\ Unwrap(presult) = Err(TooManyPorts(MAX_PORT_COUNT + 1))
                   /\ \A k \in CrossingTokens : idx - 1 <= k
                   /\ (idx - 1) \in CrossingTokens
              ELSE ~IsTooMany(Unwrap(presult))
    /\ ParseOk =>
          /\ Len(Unwrap(presult).val) <= MAX_PORT_COUNT
          /\ Len(Unwrap(presult).val) = Cardinality(PrefixPorts(Len(tokens)))

\* exactly MAX_PORT_COUNT ports were accepted, the next token crossed the
\* ceiling and the token after it was never scanned
C10_Witness ==
    /\ ParseErr
    /\ IsTooMany(Unwrap(presult))
    /\ Cardinality(out) = MAX_PORT_COUNT
    /\ idx = 3
    /\ Len(tokens) = 3

-----------------------------------------------------------------------------
(* The port prober: scan_ports and scan_ports_cmd *)

RECURSIVE ToAsciiLowercase(_)
\* str::to_ascii_lowercase
ToAsciiLowercase(text) ==
    IF text = <<>> THEN <<>>
    ELSE <<ToAsciiLower(Head(text))>> \o ToAsciiLowercase(Tail(text))

LocalAliases ==
    { <<"1", "2", "7", ".", "0", ".", "0", ".", "1">>,
      <<"l", "o", "c", "a", "l", "h", "o", "s", "t">>,
      <<":", ":", "1">> }

\* mutant: every host is taken for a local one
is_local_host_Always(host) == TRUE

is_local_host(host) == ToAsciiLowercase(Trim(host)) \in LocalAliases

\* Duration::from_millis(timeout_ms.max(50))
EffectiveTimeout(timeout_ms) == IF timeout_ms > 50 THEN timeout_ms ELSE 50

\* pid_map.get(&port).copied()
MapGet(map, port) == IF port \in DOMAIN map THEN Some(map[port]) ELSE None

\* format!("{}:{}", host, port)
AddrText(host, port) == host \o <<":">> \o ToDecimal(port)

PortStatus(port, open, pid, process_name, message) ==
    [port |-> port, open |-> open, pid |-> pid,
     process_name |-> process_name, message |-> message]

(* Inputs and environment of a scan *)

ScanHosts ==
    LocalAliases \cup
    { <<" ", "L", "o", "c", "a", "l", "H", "o", "s", "t">>,
      <<"1", "2", "7", ".", "0", ".", "0", ".", "2">>,
      <<"h">>,
      <<" ">>,
      <<>> }

ScanPorts == {80, 443}

ScanPids == {7, 10}

ScanTimeouts == {0, 300}

RECURSIVE PortSeqs(_)
PortSeqs(n) ==
    IF n = 0 THEN {<<>>}
    ELSE LET shorter == PortSeqs(n - 1)
         IN  shorter \cup {Append(ps, p) : ps \in shorter, p \in ScanPorts}

\* the maps port_pid_map can build: every pid it inserts is > 0
PidMaps ==
    UNION {[ports -> ScanPids] : ports \in SUBSET ScanPorts}

\* What port_pid_map can return: Err when the listing command fails to run
\* or exits non-zero, Ok(map) otherwise.
PortPidMapOutcomes ==
    {Err(<<"listing failed">>)} \cup {Ok(m) : m \in PidMaps}

\* What process_name_by_pid answers during a scan: None or a non-empty name.
ScanNameOutcomes == {None, Some(<<"n">>), Some(<<"j">>)}

\* The io::Error texts of a failed connect_timeout.
ConnectErrors == {<<"connection refused">>, <<"connection timed out">>}

\* What the environment answers for one port: the resolved address if any,
\* the connect result if a connect was attempted, the owner name if the
\* name lookup was run.
ProbeAnswers(map, port) ==
    {[target |-> None, conn |-> None, name |-> None]}
    \cup {[target |-> Some("addr"), conn |-> Some(Err(e)), name |-> None] :
            e \in ConnectErrors}
    \cup {[target |-> Some("addr"), conn |-> Some(Ok(<<>>)), name |-> n] :
            n \in IF IsSome(MapGet(map, port))
                      THEN {Some(o) : o \in ScanNameOutcomes}
                      ELSE {None}}

\* port_pid_map().unwrap_or_default()
UnwrapOrDefault(res) == IF res.ok THEN res.val ELSE EmptyMap

\* mutant: a closed port is reported with the pid the map holds for it
ProbeRecord_PidOnClosed(host, port, map, answer) ==
    IF IsSome(answer.target)
        THEN IF Unwrap(answer.conn).ok
                THEN LET pid == MapGet(map, port)
                     IN  PortStatus(port, TRUE, pid,
                                    IF IsSome(pid) THEN Unwrap(answer.name)
                                                   ELSE None,
                                    <<"connection succeeded">>)
                ELSE PortStatus(port, FALSE, MapGet(map, port), None,
                                Unwrap(answer.conn).val)
        ELSE PortStatus(port, FALSE, None, None,
                        <<"invalid address: ">> \o AddrText(host, port))

\* the PortStatus one loop iteration builds
ProbeRecord(host, port, map, answer) ==
    IF IsSome(answer.target)
        THEN IF Unwrap(answer.conn).ok
                THEN LET pid == MapGet(map, port)
                     IN  PortStatus(port, TRUE, pid,
                                    IF IsSome(pid) THEN Unwrap(answer.name)
                                                   ELSE None,
                                    <<"connection succeeded">>)
                ELSE PortStatus(port, FALSE, None, None,
                                Unwrap(answer.conn).val)
        ELSE PortStatus(port, FALSE, None, None,
                        <<"invalid address: ">> \o AddrText(host, port))

\* the calls one loop iteration makes, in order
ProbeCalls(host, port, map, answer, timeout) ==
    <<[op |-> "resolve_first", addr |-> AddrText(host, port)]>>
    \o (IF IsSome(answer.target)
            THEN <<[op |-> "connect_timeout", port |-> port,
                    timeout |-> timeout]>>
            ELSE <<>>)
    \o (IF IsSome(answer.target) /\ Unwrap(answer.conn).ok
           /\ IsSome(MapGet(map, port))
            THEN <<[op |-> "process_name_by_pid", pid |-> map[port]]>>
            ELSE <<>>)

\* mutant: a port that is not open leaves no record
PushStatus_SkipClosed(records, rec) ==
    IF rec.open THEN Append(records, rec) ELSE records

\* out.push(PortStatus { .. })
PushStatus(records, rec) == Append(records, rec)

\* the expressions scan_ports_cmd is called with
CmdExpressions ==
    { <<>>,
      <<",", " ">>,
      <<"8", "0">>,
      <<"4", "4", "3", " ", "8", "0">>,
      <<"x">>,
      <<"8", "0", ",", " ", "x">>,
      <<"1", "-", "5", "0", "0", "1">> }

ScanInit ==
    /\ platform = "posix"
    /\ KillIdle
    /\ ParseIdle
    /\ ScanIdle
    /\ NetstatIdle
    /\ MatchIdle

\* a caller invokes scan_ports(host, ports, timeout_ms)
CallScanPorts ==
    /\ spc = "idle"
    /\ \E host \in ScanHosts, ports \in PortSeqs(MaxPorts),
          ms \in ScanTimeouts :
          /\ shost' = host
          /\ sports' = ports
          /\ stimeout_ms' = ms
    /\ sentry' = "scan_ports"
    /\ spc' = "scan_start"
    /\ UNCHANGED <<sexpr, pid_map, si, sout, probes, scalls, sresult>>
    /\ UNCHANGED nonScanVars

\* the frontend invokes scan_ports_cmd(host, ports_expr, timeout_ms)
CallScanPortsCmd ==
    /\ spc = "idle"
    /\ \E host \in ScanHosts, expr \in CmdExpressions, ms \in ScanTimeouts :
          /\ shost' = host
          /\ sexpr' = expr
          /\ stimeout_ms' = ms
    /\ sentry' = "scan_ports_cmd"
    /\ spc' = "cmd_check_host"
    /\ UNCHANGED <<sports, pid_map, si, sout, probes, scalls, sresult>>
    /\ UNCHANGED nonScanVars

\* host.trim().is_empty()
HostIsEmpty(host) == Trim(host) = <<>>

\* if host.trim().is_empty() { return Err("host is empty") }
CmdCheckHost ==
    /\ spc = "cmd_check_host"
    /\ IF HostIsEmpty(shost)
          THEN /\ sresult' = Some(Err(<<"host is empty">>))
               /\ spc' = "done"
          ELSE /\ sresult' = sresult
               /\ spc' = "cmd_parse"
    /\ UNCHANGED <<sentry, shost, sexpr, stimeout_ms, sports, pid_map, si,
                   sout, probes, scalls>>
    /\ UNCHANGED nonScanVars

\* let ports = parse_ports_expr_strict(&ports_expr)?;
CmdParse ==
    /\ spc = "cmd_parse"
    /\ scalls' = Append(scalls, [op |-> "parse_ports_expr_strict"])
    /\ LET parsed == parse_ports_expr_strict(sexpr)
       IN  IF parsed.ok
              THEN /\ sports' = parsed.val
                   /\ sresult' = sresult
                   /\ spc' = "cmd_check_empty"
              ELSE /\ sports' = sports
                   /\ sresult' = Some(Err(parsed.val))
                   /\ spc' = "done"
    /\ UNCHANGED <<sentry, shost, sexpr, stimeout_ms, pid_map, si, sout, probes>>
    /\ UNCHANGED nonScanVars

\* mutant: an empty port list is handed to scan_ports like any other
NoPortsToScan_Never(ports) == FALSE

\* ports.is_empty()
NoPortsToScan(ports) == ports = <<>>

\* if ports.is_empty() { return Ok(vec![]) }  else call scan_ports
CmdCheckEmpty ==
    /\ spc = "cmd_check_empty"
    /\ IF NoPortsToScan(sports)
          THEN /\ sresult' = Some(Ok(<<>>))
               /\ spc' = "done"
          ELSE /\ sresult' = sresult
               /\ spc' = "scan_start"
    /\ UNCHANGED <<sentry, shost, sexpr, stimeout_ms, sports, pid_map, si,
                   sout, probes, scalls>>
    /\ UNCHANGED nonScanVars

\* let pid_map = if is_local_host(host) { port_pid_map().unwrap_or_default() }
\*               else { HashMap::new() };
ScanStartMap ==
    /\ spc = "scan_start"
    /\ IF is_local_host(shost)
          THEN /\ \E res \in PortPidMapOutcomes :
                     pid_map' = UnwrapOrDefault(res)
               /\ scalls' = scalls \o <<[op |-> "scan_ports"],
                                         [op |-> "port_pid_map"]>>
          ELSE /\ pid_map' = EmptyMap
               /\ scalls' = Append(scalls, [op |-> "scan_ports"])
    /\ si' = 1
    /\ sout' = <<>>
    /\ probes' = <<>>
    /\ spc' = "probe"
    /\ UNCHANGED <<sentry, shost, sexpr, stimeout_ms, sports, sresult>>
    /\ UNCHANGED nonScanVars

\* one iteration of  for &port in ports
ProbePort ==
    /\ spc = "probe"
    /\ si <= Len(sports)
    /\ \E answer \in ProbeAnswers(pid_map, sports[si]) :
          /\ probes' = Append(probes, answer)
          /\ sout' = PushStatus(sout, ProbeRecord(shost, sports[si], pid_map,
                                                  answer))
          /\ scalls' = scalls \o ProbeCalls(shost, sports[si], pid_map, answer,
                                            EffectiveTimeout(stimeout_ms))
    /\ si' = si + 1
    /\ UNCHANGED <<spc, sentry, shost, sexpr, stimeout_ms, sports, pid_map,
                   sresult>>
    /\ UNCHANGED nonScanVars

\* the loop is over: scan_ports returns out (scan_ports_cmd wraps it in Ok)
ScanReturn ==
    /\ spc = "probe"
    /\ si > Len(sports)
    /\ sresult' = Some(Ok(sout))
    /\ spc' = "done"
    /\ UNCHANGED <<sentry, shost, sexpr, stimeout_ms, sports, pid_map, si,
                   sout, probes, scalls>>
    /\ UNCHANGED nonScanVars

ScanNext ==
    \/ CallScanPorts
    \/ CallScanPortsCmd
    \/ CmdCheckHost
    \/ CmdParse
    \/ CmdCheckEmpty
    \/ ScanStartMap
    \/ ProbePort
    \/ ScanReturn

SpecScan == ScanInit /\ [][ScanNext]_vars

-----------------------------------------------------------------------------
(* Properties of the prober *)

ScanDone == spc = "done"

ScanOk == ScanDone /\ Unwrap(sresult).ok

CallsOf(op) == {i \in 1..Len(scalls) : scalls[i].op = op}

\* scan_ports has been entered
ScanStarted == CallsOf("scan_ports") # {}

\* the i-th probed port was found reachable
Connected(i) == IsSome(probes[i].target) /\ Unwrap(probes[i].conn).ok

\* C11: scan_ports returns one PortStatus per input port, in input order,
\* the i-th record for the i-th port, whatever each probe and each resolver
\* answered; the record of a port is the one its own probe gives.
C11_OneRecordPerPort ==
    /\ spc = "probe" => (Len(sout) = si - 1 /\ Len(probes) = si - 1)
    /\ ScanStarted =>
          \A i \in 1..Len(sout) :
              /\ i <= Len(sports)
              /\ sout[i].port = sports[i]
              /\ sout[i].open = Connected(i)
              /\ sout[i] = ProbeRecord(shost, sports[i], pid_map, probes[i])
    /\ (ScanDone /\ ScanStarted) =>
          /\ Len(sout) = Len(sports)
          /\ sresult = Some(Ok(sout))

\* a local scan of two ports: the first address does not resolve, the second
\* port is open
C11_Witness ==
    /\ ScanDone /\ ScanStarted
    /\ is_local_host(shost)
    /\ sports = <<443, 80>>
    /\ probes[1].target = None
    /\ Connected(2)
    /\ Unwrap(sresult).val[2].port = 80
    /\ Unwrap(sresult).val[2].open

\* the host, trimmed and with ASCII case ignored, is one of the local aliases
IsLocalAlias(host) ==
    \E alias \in LocalAliases : EqIgnoreAsciiCase(Trim(host), alias)

ResolverDiscipline(local) ==
    /\ Cardinality(CallsOf("port_pid_map")) <= 1
    /\ (ScanStarted /\ local) =>
          /\ Cardinality(CallsOf("port_pid_map")) = 1
          /\ \A m \in CallsOf("port_pid_map") :
                \A r \in CallsOf("resolve_first") \cup CallsOf("connect_timeout") :
                    m < r
    /\ ~local =>
          /\ CallsOf("port_pid_map") = {}
          /\ CallsOf("process_name_by_pid") = {}
          /\ \A i \in 1..Len(sout) :
                sout[i].pid = None /\ sout[i].process_name = None

\* C12 as stated: the socket-PID resolver runs only when host is exactly
\* 127.0.0.1, localhost or ::1, then once per scan before the first probe;
\* for any other host neither resolver runs and no record has a pid or name.
C12_ResolverOnlyForListedHosts == ResolverDiscipline(shost \in LocalAliases)

\* C12, amended: the same with "host is one of the aliases" read after
\* trimming surrounding whitespace and ignoring ASCII case.
C12_ResolverOnlyForLocalHost == ResolverDiscipline(IsLocalAlias(shost))

\* " LocalHost" is scanned as a local host: the resolver ran once and a
\* record carries a pid
C12_Witness ==
    /\ ScanDone /\ ScanStarted
    /\ shost \notin LocalAliases
    /\ IsLocalAlias(shost)
    /\ Cardinality(CallsOf("port_pid_map")) = 1
    /\ \E i \in 1..Len(sout) : IsSome(sout[i].pid)

\* C15: scan_ports_cmd rejects without probing or resolving: a blank host
\* gives "host is empty" before the expression is parsed; a strict parse error
\* is returned unchanged; an expression with no ports gives an empty list.
C15_CmdRejectsWithoutProbing ==
    (ScanDone /\ sentry = "scan_ports_cmd") =>
        IF IsBlank(shost)
            THEN /\ sresult = Some(Err(<<"host is empty">>))
                 /\ scalls = <<>>
        ELSE IF ~parse_ports_expr_strict(sexpr).ok
            THEN /\ sresult = Some(parse_ports_expr_strict(sexpr))
                 /\ scalls = <<[op |-> "parse_ports_expr_strict"]>>
        ELSE IF parse_ports_expr_strict(sexpr).val = <<>>
            THEN /\ sresult = Some(Ok(<<>>))
                 /\ scalls = <<[op |-> "parse_ports_expr_strict"]>>
        ELSE ScanStarted

\* a local host with an expression of separators only
C15_Witness ==
    /\ ScanDone /\ sentry = "scan_ports_cmd"
    /\ is_local_host(shost)
    /\ sexpr = <<",", " ">>
    /\ sresult = Some(Ok(<<>>))

\* C16: in every PortStatus of a scan, a port that is not open has no pid and
\* no name; a name comes with a pid and an open port; a pid is the one the
\* scan's socket-PID map holds for the record's port.
C16_RecordInvariants ==
    \A i \in 1..Len(sout) :
        LET r == sout[i]
        IN  /\ ~r.open => (r.pid = None /\ r.process_name = None)
            /\ IsSome(r.process_name) => (IsSome(r.pid) /\ r.open)
            /\ IsSome(r.pid) => r.pid = MapGet(pid_map, r.port)

\* one record with pid and name, and one closed record for a port the map holds
C16_Witness ==
    /\ ScanOk
    /\ Len(sout) = 2
    /\ IsSome(sout[1].process_name) /\ IsSome(sout[1].pid)
    /\ ~sout[2].open
    /\ IsSome(MapGet(pid_map, sout[2].port))

-----------------------------------------------------------------------------
(* The Windows-style listing parser *)

\* the first index at or after i whose character is (or is not, when member
\* is FALSE) in chars; Len(text) + 1 when there is none
NextIndex(text, i, chars, member) ==
    LET Hit(j) == (text[j] \in chars) = member
    IN  IF \E j \in i..Len(text) : Hit(j)
            THEN CHOOSE j \in i..Len(text) :
                    Hit(j) /\ \A k \in i..(j - 1) : ~Hit(k)
            ELSE Len(text) + 1

\* str::lines: the pieces between "\n", a trailing "\r" of a piece removed,
\* no piece for the text after the last "\n" when it is empty
RECURSIVE LinesFrom(_, _)
LinesFrom(text, i) ==
    LET StripCr(l) == IF l # <<>> /\ l[Len(l)] = "\r"
                          THEN SubSeq(l, 1, Len(l) - 1) ELSE l
        nl == NextIndex(text, i, {"\n"}, TRUE)
    IN  IF i > Len(text) THEN <<>>
        ELSE <<StripCr(SubSeq(text, i, nl - 1))>> \o LinesFrom(text, nl + 1)

Lines(text) == LinesFrom(text, 1)

\* str::split_whitespace: the non-empty pieces between whitespace
RECURSIVE SplitWhitespaceFrom(_, _)
SplitWhitespaceFrom(text, i) ==
    LET start == NextIndex(text, i, Whitespace, FALSE)
        stop  == NextIndex(text, start, Whitespace, TRUE)
    IN  IF start > Len(text) THEN <<>>
        ELSE <<SubSeq(text, start, stop - 1)>> \o SplitWhitespaceFrom(text, stop)

SplitWhitespace(text) == SplitWhitespaceFrom(text, 1)

\* index of the last occurrence of c in text at or before i, 0 when none
RFind(text, c, i) ==
    IF \E j \in 1..i : text[j] = c
        THEN CHOOSE j \in 1..i : text[j] = c /\ \A k \in (j + 1)..i : text[k] # c
        ELSE 0

\* addr.rsplit_once(':')?.1.parse::<u16>().ok()
PortAfterLastColon(addr) ==
    LET colon == RFind(addr, ":", Len(addr))
    IN  IF colon = 0 THEN None
        ELSE ParseU16(SubSeq(addr, colon + 1, Len(addr)))

parse_port_from_addr(addr) ==
    IF addr = <<>> THEN None
    ELSE LET end == RFind(addr, "]", Len(addr))
         IN  IF end # 0 /\ end < Len(addr) /\ addr[end + 1] = ":"
                 THEN ParseU16(SubSeq(addr, end + 2, Len(addr)))
                 ELSE PortAfterLastColon(addr)

\* the digit loop of u32::from_str; the pid texts of the model have fewer
\* than ten digits, so the overflow return of the loop is out of their reach
RECURSIVE ParseDigitsU32(_, _)
ParseDigitsU32(digits, acc) ==
    IF digits = <<>> THEN Some(acc)
    ELSE IF DigitValue(Head(digits)) < 0 \/ Len(digits) > 9 THEN None
    ELSE ParseDigitsU32(Tail(digits), acc * 10 + DigitValue(Head(digits)))

\* str::parse::<u32>().ok()
ParseU32(text) ==
    IF text = <<>> THEN None
    ELSE IF Len(text) = 1 /\ Head(text) \in {"+", "-"} THEN None
    ELSE IF Head(text) = "+" THEN ParseDigitsU32(Tail(text), 0)
    ELSE ParseDigitsU32(text, 0)

LISTENING == <<"L", "I", "S", "T", "E", "N", "I", "N", "G">>

\* mutant: a later row for the same port replaces the earlier one
MapOrInsert_Overwrite(map, port, pid) ==
    [p \in DOMAIN map \cup {port} |-> IF p = port THEN pid ELSE map[p]]

\* out.entry(port).or_insert(pid)
MapOrInsert(map, port, pid) ==
    IF port \in DOMAIN map THEN map
    ELSE [p \in DOMAIN map \cup {port} |-> IF p = port THEN pid ELSE map[p]]

\* state.eq_ignore_ascii_case("LISTENING")
IsListening(state) == EqIgnoreAsciiCase(state, LISTENING)

\* one iteration of the for loop over the lines
NetstatStep(map, line) ==
    LET cols == SplitWhitespace(line)
    IN  IF Len(cols) < 5 THEN map
        ELSE IF ~IsListening(cols[4]) THEN map
        ELSE LET pid  == ParseU32(cols[5])
                 port == parse_port_from_addr(cols[2])
             IN  IF IsSome(port) /\ IsSome(pid) /\ Unwrap(pid) > 0
                     THEN MapOrInsert(map, Unwrap(port), Unwrap(pid))
                     ELSE map

(* Inputs of the listing parser: rows as netstat prints them *)

RowPool ==
    { << <<"T", "C", "P">>,
            <<"0", ".", "0", ".", "0", ".", "0", ":", "8", "0">>,
            <<"0", ".", "0", ".", "0", ".", "0", ":", "0">>,
            <<"L", "I", "S", "T", "E", "N", "I", "N", "G">>,
            <<"1", "1", "1">> >>,
      << <<"T", "C", "P">>,
            <<"1", "2", "7", ".", "0", ".", "0", ".", "1", ":", "8", "0">>,
            <<"1", "2", "7", ".", "0", ".", "0", ".", "1", ":", "5", "4", "0", "0", "0">>,
            <<"E", "S", "T", "A", "B", "L", "I", "S", "H", "E", "D">>,
            <<"2", "2", "2">> >>,
      << <<"T", "C", "P">>,
            <<"[", ":", ":", "]", ":", "8", "0">>,
            <<"[", ":", ":", "]", ":", "0">>,
            <<"L", "i", "s", "t", "e", "n", "i", "n", "g">>,
            <<"3", "3", "3">> >>,
      << <<"T", "C", "P">>,
            <<"[", ":", ":", "]", ":", "4", "4", "3">>,
            <<"[", ":", ":", "]", ":", "0">>,
            <<"L", "I", "S", "T", "E", "N", "I", "N", "G">>,
            <<"4", "4", "4">> >>,
      << <<"P", "r", "o", "t", "o">>,
            <<"L", "o", "c", "a", "l">>,
            <<"A", "d", "d", "r", "e", "s", "s">>,
            <<"F", "o", "r", "e", "i", "g", "n">>,
            <<"A", "d", "d", "r", "e", "s", "s">>,
            <<"S", "t", "a", "t", "e">>,
            <<"P", "I", "D">> >>,
      << <<"T", "C", "P">>,
            <<"0", ".", "0", ".", "0", ".", "0", ":", "4", "4", "3">>,
            <<"0", ".", "0", ".", "0", ".", "0", ":", "0">>,
            <<"L", "I", "S", "T", "E", "N", "I", "N", "G">>,
            <<"0">> >>,
      << <<"U", "D", "P">>,
            <<"0", ".", "0", ".", "0", ".", "0", ":", "8", "0">>,
            <<"*", ":", "*">>,
            <<"5", "5", "5">> >>,
      << <<"T", "C", "P">>,
            <<"0", ".", "0", ".", "0", ".", "0", ":", "4", "4", "3">>,
            <<"0", ".", "0", ".", "0", ".", "0", ":", "0">>,
            <<"L", "I", "S", "T", "E", "N", "I", "N", "G">>,
            <<"x", "9">> >>,
      << <<"T", "C", "P">>,
            <<"n", "o", "c", "o", "l", "o", "n">>,
            <<"0", ".", "0", ".", "0", ".", "0", ":", "0">>,
            <<"L", "I", "S", "T", "E", "N", "I", "N", "G">>,
            <<"6", "6", "6">> >> }

\* a row as a line of text: indented, columns padded with spaces, CR LF
RECURSIVE RowText(_)
RowText(cols) ==
    IF cols = <<>> THEN <<"\r", "\n">>
    ELSE <<" ", " ">> \o Head(cols) \o RowText(Tail(cols))

RECURSIVE RowSeqs(_)
RowSeqs(n) ==
    IF n = 0 THEN {<<>>}
    ELSE LET shorter == RowSeqs(n - 1)
         IN  shorter \cup {Append(rs, r) : rs \in shorter, r \in RowPool}

RECURSIVE StdoutText(_)
StdoutText(rs) ==
    IF rs = <<>> THEN <<>>
    ELSE RowText(Head(rs)) \o StdoutText(Tail(rs))

Listings == {StdoutText(rs) : rs \in RowSeqs(MaxRows)}

NetstatInit ==
    /\ platform = "windows"
    /\ KillIdle
    /\ ParseIdle
    /\ ScanIdle
    /\ NetstatIdle
    /\ MatchIdle

\* port_pid_map hands the stdout of netstat to the parser
CallNetstatParse ==
    /\ npc = "idle"
    /\ \E text \in Listings : listing' = text
    /\ nline' = 1
    /\ nmap' = EmptyMap
    /\ npc' = "scan"
    /\ UNCHANGED nonNetstatVars

\* one iteration of  for line in stdout.lines()
NetstatLine ==
    /\ npc = "scan"
    /\ nline <= Len(Lines(listing))
    /\ nmap' = NetstatStep(nmap, Lines(listing)[nline])
    /\ nline' = nline + 1
    /\ UNCHANGED <<npc, listing>>
    /\ UNCHANGED nonNetstatVars

\* the loop is over: the map is returned
NetstatReturn ==
    /\ npc = "scan"
    /\ nline > Len(Lines(listing))
    /\ npc' = "done"
    /\ UNCHANGED <<listing, nline, nmap>>
    /\ UNCHANGED nonNetstatVars

NetstatNext ==
    \/ CallNetstatParse
    \/ NetstatLine
    \/ NetstatReturn

SpecNetstat == NetstatInit /\ [][NetstatNext]_vars

-----------------------------------------------------------------------------
(* Properties of the listing parser *)

\* the columns of the i-th line of the listing
RowCols(i) == SplitWhitespace(Lines(listing)[i])

\* the i-th line is a LISTENING row with a numeric port and a pid > 0
EligibleRow(i) ==
    /\ Len(RowCols(i)) >= 5
    /\ ToAsciiLowercase(RowCols(i)[4]) = ToAsciiLowercase(LISTENING)
    /\ IsSome(parse_port_from_addr(RowCols(i)[2]))
    /\ IsSome(ParseU32(RowCols(i)[5]))
    /\ Unwrap(ParseU32(RowCols(i)[5])) > 0

RowPort(i) == Unwrap(parse_port_from_addr(RowCols(i)[2]))

RowPid(i) == Unwrap(ParseU32(RowCols(i)[5]))

\* the eligible rows for port p among the first k lines
EligibleFor(p, k) == {i \in 1..k : EligibleRow(i) /\ RowPort(i) = p}

\* C13: the map holds exactly the ports of the eligible LISTENING rows read
\* so far, each mapped to the pid of the first such row for that port; later
\* rows do not replace it and rows in another state do not contribute.
C13_ListeningFirstWins ==
    npc \in {"scan", "done"} =>
        LET k == nline - 1
        IN  /\ \A i \in 1..k : EligibleRow(i) => RowPort(i) \in DOMAIN nmap
            /\ \A p \in DOMAIN nmap :
                  /\ EligibleFor(p, k) # {}
                  /\ \E i \in EligibleFor(p, k) :
                        /\ nmap[p] = RowPid(i)
                        /\ \A j \in EligibleFor(p, k) : i <= j

\* port 80: LISTENING pid 111, ESTABLISHED pid 222, Listening pid 333
C13_Witness ==
    /\ npc = "done"
    /\ nline = 4
    /\ EligibleFor(80, 3) = {1, 3}
    /\ ~EligibleRow(2)
    /\ RowPort(1) = 80 /\ RowPid(1) = 111 /\ RowPid(3) = 333
    /\ nmap = [p \in {80} |-> 111]

-----------------------------------------------------------------------------
(* names_match applied to arbitrary pairs of names *)

\* the characters of the names: whitespace, an ASCII letter in both cases,
\* another ASCII letter, and a non-ASCII letter in both cases (U+00E9, U+00C9)
MatchChars == {" ", "n", "N", "j", "e_acute", "E_ACUTE"}

MatchNames == StringsUpTo(MatchChars, MaxNameLen)

MatchInit ==
    /\ platform = "posix"
    /\ KillIdle
    /\ ParseIdle
    /\ ScanIdle
    /\ NetstatIdle
    /\ MatchIdle

\* a caller passes two names
CallNamesMatch ==
    /\ mpc = "idle"
    /\ \E e \in MatchNames, a \in MatchNames :
          /\ m_expected' = e
          /\ m_actual' = a
    /\ mpc' = "called"
    /\ UNCHANGED m_result
    /\ UNCHANGED nonMatchVars

\* names_match returns
NamesMatchReturn ==
    /\ mpc = "called"
    /\ m_result' = Some(names_match(m_expected, m_actual))
    /\ mpc' = "done"
    /\ UNCHANGED <<m_expected, m_actual>>
    /\ UNCHANGED nonMatchVars

MatchNext ==
    \/ CallNamesMatch
    \/ NamesMatchReturn

SpecMatch == MatchInit /\ [][MatchNext]_vars

-----------------------------------------------------------------------------
(* Properties of names_match *)

\* core is s without its leading and trailing whitespace
IsTrimOf(core, s) ==
    /\ core = <<>> \/ (core[1] \notin Whitespace /\ core[Len(core)] \notin Whitespace)
    /\ \E i \in 0..Len(s) :
          /\ i + Len(core) <= Len(s)
          /\ \A k \in 1..Len(s) :
                IF k > i /\ k <= i + Len(core)
                    THEN s[k] = core[k - i]
                    ELSE s[k] \in Whitespace

\* the same letter up to ASCII case
SameLetter(c, d) ==
    \/ c = d
    \/ \E i \in 1..26 : {c, d} = {AsciiUpper[i], AsciiLower[i]}

\* the contiguous pieces of s
Pieces(s) == {SubSeq(s, i, j) : i \in 1..(Len(s) + 1), j \in 0..Len(s)}

\* equal after trimming surrounding whitespace and ignoring ASCII case
TrimmedFoldedEqual(e, a) ==
    \E ce \in Pieces(e), ca \in Pieces(a) :
        /\ IsTrimOf(ce, e)
        /\ IsTrimOf(ca, a)
        /\ Len(ce) = Len(ca)
        /\ \A k \in 1..Len(ce) : SameLetter(ce[k], ca[k])

\* s with the ASCII case of its i-th character changed
FlipCaseAt(s, i) ==
    [s EXCEPT ![i] =
        IF \E k \in 1..26 : AsciiUpper[k] = s[i]
            THEN AsciiLower[CHOOSE k \in 1..26 : AsciiUpper[k] = s[i]]
        ELSE IF \E k \in 1..26 : AsciiLower[k] = s[i]
            THEN AsciiUpper[CHOOSE k \in 1..26 : AsciiLower[k] = s[i]]
        ELSE s[i]]

\* s with whitespace added around it, and s with the case of a letter changed
Padded(s) ==
    {l \o s \o r : l \in StringsUpTo(Whitespace, 1), r \in StringsUpTo(Whitespace, 1)}

Recased(s) == {FlipCaseAt(s, i) : i \in 1..Len(s)}

MatchDone == mpc = "done"

\* C14: names_match is true exactly when the names are equal after trimming
\* surrounding whitespace and ignoring ASCII letter case; it is reflexive and
\* symmetric, and adding surrounding whitespace to an argument or changing
\* the ASCII case of one of its letters does not change the answer.
C14_NamesMatchRelation ==
    MatchDone =>
        LET e == m_expected
            a == m_actual
            r == Unwrap(m_result)
        IN  /\ r = TrimmedFoldedEqual(e, a)
            /\ names_match(e, e)
            /\ names_match(a, e) = r
            /\ \A v \in Padded(e) \cup Recased(e) : names_match(v, a) = r
            /\ \A v \in Padded(a) \cup Recased(a) : names_match(e, v) = r

\* " N" matches "n": whitespace is trimmed and the case is ignored
C14_Witness ==
    /\ MatchDone
    /\ m_expected = <<" ", "N">>
    /\ m_actual = <<"n">>
    /\ m_result = Some(TRUE)

=============================================================================
